---- MODULE Spec2Model ----
(***************************************************************************)
(* Model of the full-page screenshot service: the Go handler handleScrape  *)
(* (src/main.go), its stitcher stitchVertical, and the Node handler        *)
(* POST /scrape (src/index.js).                                            *)
(***************************************************************************)
EXTENDS Integers, Sequences, FiniteSets, TLC

(* ---------- bounds of the model ---------- *)
MaxTotalHeight == 130
MaxTiles == 6
MaxStitchTiles == 3
MaxTileHeight == 3
MaxStitchOverlap == 4

(* ---------- program constants ---------- *)
DefaultTimeoutMS == 30000
DefaultViewportWidth == 1280
DefaultViewportHeight == 1024
DefaultSettleDelayMS == 300
DefaultOverlapPX == 140
DefaultJPEGQuality == 85
MaxJPEGQuality == 95
SafetyFloor == 50

(* ---------- inputs ---------- *)
RawViewportHeights == {-5, 0, 1, 2, 3, 60, 100}
RawOverlaps == {-1, 0, 1, 10, 50}
RawViewportWidths == {0, 800}
RawQualities == {0, 50, 96}
RawFormats == {"", "png"}
RawTimeouts == {-1, 0, 5}
RawSettleDelays == {0, 7}

\* the zero value of ScrapeRequest: what a body without any field decodes to
NoReq ==
    [URL |-> "", TimeoutMS |-> 0, ViewportWidth |-> 0, ViewportHeight |-> 0,
     SettleDelayMS |-> 0, OverlapPX |-> 0, ImageFormat |-> "",
     JPEGQuality |-> 0]

\* requests that vary the geometry of the scroll loop
LoopRequests ==
    [URL : {"http://page"}, TimeoutMS : {0}, ViewportWidth : {0},
     ViewportHeight : RawViewportHeights, SettleDelayMS : {0},
     OverlapPX : RawOverlaps, ImageFormat : {""}, JPEGQuality : {0}]

\* requests that vary the other fields
FieldRequests ==
    [URL : {"http://page"}, TimeoutMS : RawTimeouts,
     ViewportWidth : RawViewportWidths, ViewportHeight : {0},
     SettleDelayMS : RawSettleDelays, OverlapPX : {0},
     ImageFormat : RawFormats, JPEGQuality : RawQualities]

RawRequests == LoopRequests \cup FieldRequests \cup {NoReq}

\* the HTTP requests: another method, a body that is not JSON, a JSON body
Bodies ==
    {[method |-> "GET", malformed |-> FALSE, fields |-> NoReq],
     [method |-> "POST", malformed |-> TRUE, fields |-> NoReq]}
    \cup {[method |-> "POST", malformed |-> FALSE, fields |-> r] :
            r \in RawRequests}

NoBody == [method |-> "POST", malformed |-> FALSE, fields |-> NoReq]

\* what the handler has done so far: the navigation and the measurement
\* attempted, the scrolls to the cursor and the captures attempted, the
\* quality handed to the JPEG encoder
NoHist ==
    [navigated |-> FALSE, measured |-> FALSE, scrolls |-> 0, captures |-> 0,
     quality |-> 0]

NoResp == [sent |-> FALSE, ok |-> FALSE, status |-> 0, image |-> FALSE]

NoOut == [w |-> 0, h |-> 0, total |-> 0, cursorY |-> 0, pastes |-> <<>>]

VARIABLES
    pc,          \* position of the handler
    req,         \* the decoded request
    session,     \* "none" | "open" | "closed": the browser session of the request
    expired,     \* the overall deadline of the request has passed
    totalHeight, \* the measured page height
    scrollY,     \* the scroll offset of the page in the browser
    cursorY,     \* the loop's cursor
    step,        \* the loop's step
    tiles,       \* the captured tiles, in append order
    failed,      \* the scroll and capture operations that returned an error
    out,         \* the stitched image
    resp,        \* the response written
    body,        \* the HTTP request the handler was called with
    hist         \* what the handler has done so far

vars == <<pc, req, session, expired, totalHeight, scrollY, cursorY, step,
          tiles, failed, out, resp, body, hist>>

Max(a, b) == IF a > b THEN a ELSE b
Min(a, b) == IF a < b THEN a ELSE b

(* ---------- request normalization, main.go 65-86 ---------- *)
clamp(v, lo, hi) == IF v < lo THEN lo ELSE IF v > hi THEN hi ELSE v

\* variant: a zero timeout is kept
Defaults_ZeroKept(r) ==
    [URL |-> r.URL,
     TimeoutMS |-> IF r.TimeoutMS < 0 THEN DefaultTimeoutMS ELSE r.TimeoutMS,
     ViewportWidth |-> IF r.ViewportWidth <= 0 THEN DefaultViewportWidth
                       ELSE r.ViewportWidth,
     ViewportHeight |-> IF r.ViewportHeight <= 0 THEN DefaultViewportHeight
                        ELSE r.ViewportHeight,
     SettleDelayMS |-> IF r.SettleDelayMS <= 0 THEN DefaultSettleDelayMS
                       ELSE r.SettleDelayMS,
     OverlapPX |-> IF r.OverlapPX <= 0 THEN DefaultOverlapPX ELSE r.OverlapPX,
     ImageFormat |-> IF r.ImageFormat = "" THEN "jpeg" ELSE r.ImageFormat,
     JPEGQuality |-> IF r.JPEGQuality <= 0 \/ r.JPEGQuality > MaxJPEGQuality
                     THEN DefaultJPEGQuality ELSE r.JPEGQuality]

Defaults(r) ==
    [URL |-> r.URL,
     TimeoutMS |-> IF r.TimeoutMS <= 0 THEN DefaultTimeoutMS ELSE r.TimeoutMS,
     ViewportWidth |-> IF r.ViewportWidth <= 0 THEN DefaultViewportWidth
                       ELSE r.ViewportWidth,
     ViewportHeight |-> IF r.ViewportHeight <= 0 THEN DefaultViewportHeight
                        ELSE r.ViewportHeight,
     SettleDelayMS |-> IF r.SettleDelayMS <= 0 THEN DefaultSettleDelayMS
                       ELSE r.SettleDelayMS,
     OverlapPX |-> IF r.OverlapPX <= 0 THEN DefaultOverlapPX ELSE r.OverlapPX,
     ImageFormat |-> IF r.ImageFormat = "" THEN "jpeg" ELSE r.ImageFormat,
     JPEGQuality |-> IF r.JPEGQuality <= 0 \/ r.JPEGQuality > MaxJPEGQuality
                     THEN DefaultJPEGQuality ELSE r.JPEGQuality]

(* ---------- the step of the scroll loop, main.go 190-193 ---------- *)
\* int(float64(v) * 0.75) for v >= 0
ThreeQuarters(v) == (3 * v) \div 4

\* variant of the step: the sign of the overlap slipped
ComputeStep_Plus(viewportHeight, overlapPX) ==
    IF viewportHeight + overlapPX < SafetyFloor
    THEN ThreeQuarters(viewportHeight)
    ELSE viewportHeight + overlapPX

ComputeStep(viewportHeight, overlapPX) ==
    IF viewportHeight - overlapPX < SafetyFloor
    THEN ThreeQuarters(viewportHeight)
    ELSE viewportHeight - overlapPX

(* ---------- the browser's scroll position after window.scrollTo(0, y) ---- *)
MaxScroll(h, viewportHeight) == Max(0, h - viewportHeight)
ScrollTo(y, h, viewportHeight) == Min(Max(0, y), MaxScroll(h, viewportHeight))

(* ---------- the termination test of the loop, main.go 235 ---------- *)
\* variant: a strict comparison
ReachedBottom_Strict(c, viewportHeight, h) == c + viewportHeight > h

ReachedBottom(c, viewportHeight, h) == c + viewportHeight >= h

(* ---------- one captured tile, main.go 205-232 ---------- *)
Tile(offset, w, h) == [offset |-> offset, width |-> w, height |-> h]

(* ---------- stitchVertical, main.go 339-363 ---------- *)
RECURSIVE StitchTotal_NoOverlap(_, _, _)
\* variant: the overlap is not deducted
StitchTotal_NoOverlap(ts, overlap, i) ==
    IF i = 1 THEN ts[1].height
    ELSE StitchTotal_NoOverlap(ts, overlap, i - 1) + ts[i].height

RECURSIVE StitchTotal(_, _, _)
\* total after the loop of lines 345-348 has handled tiles 1..i
StitchTotal(ts, overlap, i) ==
    IF i = 1 THEN ts[1].height
    ELSE StitchTotal(ts, overlap, i - 1) + (ts[i].height - overlap)

StitchWidth(ts) == ts[1].width

\* image.Rect(0, 0, w, total) swaps its coordinates when total < 0
CanvasMinY(total) == Min(0, total)
CanvasMaxY(total) == Max(0, total)

RECURSIVE PasteCursor(_, _, _)
\* cursorY after the loop of lines 352-361 has pasted tiles 1..i
PasteCursor(ts, overlap, i) ==
    IF i = 0 THEN 0
    ELSE IF i = 1 THEN ts[1].height
    ELSE (PasteCursor(ts, overlap, i - 1) - overlap) + ts[i].height

PasteY(ts, overlap, i) ==
    IF i = 1 THEN 0 ELSE PasteCursor(ts, overlap, i - 1) - overlap

stitchVertical(ts, overlap) ==
    IF Len(ts) = 0
    THEN [w |-> 1, h |-> 1, total |-> 1, cursorY |-> 0, pastes |-> <<>>]
    ELSE LET total == StitchTotal(ts, overlap, Len(ts))
         IN [w |-> StitchWidth(ts),
             h |-> CanvasMaxY(total) - CanvasMinY(total),
             total |-> total,
             cursorY |-> PasteCursor(ts, overlap, Len(ts)),
             pastes |-> [i \in 1..Len(ts) |->
                           [y |-> PasteY(ts, overlap, i),
                            height |-> ts[i].height,
                            offset |-> ts[i].offset]]]

(* ---------- the handler handleScrape, main.go 53-318 ---------- *)
Init ==
    /\ pc = "start"
    /\ req = NoReq
    /\ session = "none"
    /\ expired = FALSE
    /\ totalHeight = 0
    /\ scrollY = 0
    /\ cursorY = 0
    /\ step = 0
    /\ tiles = <<>>
    /\ failed = {}
    /\ out = NoOut
    /\ resp = NoResp
    /\ body \in Bodies
    /\ hist = NoHist

\* the quality handleScrape hands to jpeg.Encode, main.go 286
EncodeQuality(r) == clamp(r.JPEGQuality, 1, MaxJPEGQuality)

\* the outcomes of chromedp.Run on the tab context: it fails once the
\* deadline has passed, and may fail for any other reason before
RunOutcomes == IF expired THEN {"err"} ELSE {"ok", "err"}

\* writeHTTPError followed by return: the deferred cancels close the session
WriteHTTPError(code) ==
    /\ resp' = [sent |-> TRUE, ok |-> FALSE, status |-> code, image |-> FALSE]
    /\ session' = IF session = "open" THEN "closed" ELSE session
    /\ pc' = "done"

WriteErr == WriteHTTPError(500)

MethodNotAllowed ==
    /\ pc = "start"
    /\ body.method # "POST"
    /\ WriteHTTPError(405)
    /\ UNCHANGED <<body, hist, req, expired, totalHeight, scrollY, cursorY, step, tiles,
                   failed, out>>

DecodeError ==
    /\ pc = "start"
    /\ body.method = "POST"
    /\ body.malformed
    /\ WriteHTTPError(400)
    /\ UNCHANGED <<body, hist, req, expired, totalHeight, scrollY, cursorY, step, tiles,
                   failed, out>>

Decode ==
    /\ pc = "start"
    /\ body.method = "POST"
    /\ ~body.malformed
    /\ req' = Defaults(body.fields)
    /\ pc' = "newctx"
    /\ UNCHANGED <<body, hist, session, expired, totalHeight, scrollY, cursorY, step,
                   tiles, failed, out, resp>>

NewContext ==
    /\ pc = "newctx"
    /\ session' = "open"
    /\ pc' = "viewport"
    /\ UNCHANGED <<body, hist, req, expired, totalHeight, scrollY, cursorY, step, tiles,
                   failed, out, resp>>

\* the timer of context.WithTimeout fires
Expire ==
    /\ session = "open"
    /\ pc # "done"
    /\ ~expired
    /\ expired' = TRUE
    /\ UNCHANGED <<body, hist, pc, req, session, totalHeight, scrollY, cursorY, step,
                   tiles, failed, out, resp>>

EmulateViewport ==
    /\ pc = "viewport"
    /\ \E o \in RunOutcomes :
         IF o = "ok"
         THEN pc' = "blockmedia" /\ UNCHANGED <<session, resp>>
         ELSE WriteErr
    /\ UNCHANGED <<body, hist, req, expired, totalHeight, scrollY, cursorY, step, tiles,
                   failed, out>>

BlockMedia ==
    /\ pc = "blockmedia"
    /\ \E blockMedia \in BOOLEAN : \E o \in RunOutcomes :
         IF ~blockMedia \/ o = "ok"
         THEN pc' = "navigate" /\ UNCHANGED <<session, resp>>
         ELSE WriteErr
    /\ UNCHANGED <<body, hist, req, expired, totalHeight, scrollY, cursorY, step, tiles,
                   failed, out>>

Navigate ==
    /\ pc = "navigate"
    /\ \E o \in RunOutcomes :
         IF o = "ok"
         THEN pc' = "style" /\ UNCHANGED <<session, resp>>
         ELSE WriteHTTPError(504)
    /\ hist' = [hist EXCEPT !.navigated = TRUE]
    /\ UNCHANGED <<body, req, expired, totalHeight, scrollY, cursorY, step, tiles,
                   failed, out>>

\* best effort: the error of the evaluation is dropped
InjectStyle ==
    /\ pc = "style"
    /\ pc' = "eager"
    /\ UNCHANGED <<body, hist, req, session, expired, totalHeight, scrollY, cursorY, step,
                   tiles, failed, out, resp>>

ForceEager ==
    /\ pc = "eager"
    /\ pc' = "assets"
    /\ UNCHANGED <<body, hist, req, session, expired, totalHeight, scrollY, cursorY, step,
                   tiles, failed, out, resp>>

WaitAssets ==
    /\ pc = "assets"
    /\ pc' = "measure"
    /\ UNCHANGED <<body, hist, req, session, expired, totalHeight, scrollY, cursorY, step,
                   tiles, failed, out, resp>>

\* variant: the measured height is not checked
MeasureHeight_Unchecked ==
    /\ pc = "measure"
    /\ \E o \in RunOutcomes :
         IF o = "ok"
         THEN \E h \in 0..MaxTotalHeight :
                /\ totalHeight' = h
                /\ hist' = [hist EXCEPT !.measured = TRUE]
                /\ pc' = "reset" /\ UNCHANGED <<session, resp>>
         ELSE WriteErr /\ UNCHANGED <<totalHeight, hist>>
    /\ UNCHANGED <<body, req, expired, scrollY, cursorY, step, tiles, failed, out>>

MeasureHeight ==
    /\ pc = "measure"
    /\ \E o \in RunOutcomes :
         IF o = "ok"
         THEN \E h \in 0..MaxTotalHeight :
                /\ totalHeight' = h
                /\ hist' = [hist EXCEPT !.measured = TRUE]
                /\ IF h < 1
                   THEN WriteHTTPError(500)
                   ELSE pc' = "reset" /\ UNCHANGED <<session, resp>>
         ELSE WriteErr /\ UNCHANGED <<totalHeight, hist>>
    /\ UNCHANGED <<body, req, expired, scrollY, cursorY, step, tiles, failed, out>>

\* window.scrollTo(0,0): the error is dropped
ResetScroll ==
    /\ pc = "reset"
    /\ \E o \in RunOutcomes :
         IF o = "ok"
         THEN scrollY' = ScrollTo(0, totalHeight, req.ViewportHeight)
              /\ UNCHANGED failed
         ELSE failed' = failed \cup {"reset"} /\ UNCHANGED scrollY
    /\ pc' = "initloop"
    /\ UNCHANGED <<body, hist, req, session, expired, totalHeight, cursorY, step, tiles,
                   out, resp>>

InitLoop ==
    /\ pc = "initloop"
    /\ tiles' = <<>>
    /\ cursorY' = 0
    /\ step' = ComputeStep(req.ViewportHeight, req.OverlapPX)
    /\ pc' = "scroll"
    /\ UNCHANGED <<body, hist, req, session, expired, totalHeight, scrollY, failed, out,
                   resp>>

ScrollToCursor ==
    /\ pc = "scroll"
    /\ \E o \in RunOutcomes :
         IF o = "ok"
         THEN /\ Len(tiles) < MaxTiles
              /\ scrollY' = ScrollTo(cursorY, totalHeight, req.ViewportHeight)
              /\ pc' = "capture"
              /\ UNCHANGED <<session, resp, failed>>
         ELSE /\ failed' = failed \cup {"scroll"}
              /\ WriteErr
              /\ UNCHANGED scrollY
    /\ hist' = [hist EXCEPT !.scrolls = @ + 1]
    /\ UNCHANGED <<body, req, expired, totalHeight, cursorY, step, tiles, out>>

Capture ==
    /\ pc = "capture"
    /\ \E o \in RunOutcomes :
         IF o = "ok"
         THEN /\ tiles' = Append(tiles, Tile(scrollY, req.ViewportWidth,
                                             req.ViewportHeight))
              /\ cursorY' = cursorY + step
              /\ pc' = IF ReachedBottom(cursorY', req.ViewportHeight,
                                        totalHeight)
                       THEN "bottom" ELSE "scroll"
              /\ UNCHANGED <<session, resp, failed>>
         ELSE /\ failed' = failed \cup {"capture"}
              /\ WriteErr
              /\ UNCHANGED <<tiles, cursorY>>
    /\ hist' = [hist EXCEPT !.captures = @ + 1]
    /\ UNCHANGED <<body, req, expired, totalHeight, scrollY, step, out>>

\* window.scrollTo(0, document.documentElement.scrollHeight): the error is
\* dropped
ScrollToBottom ==
    /\ pc = "bottom"
    /\ \E o \in RunOutcomes :
         IF o = "ok"
         THEN scrollY' = ScrollTo(totalHeight, totalHeight, req.ViewportHeight)
              /\ UNCHANGED failed
         ELSE failed' = failed \cup {"bottom"} /\ UNCHANGED scrollY
    /\ pc' = "lastcapture"
    /\ UNCHANGED <<body, hist, req, session, expired, totalHeight, cursorY, step, tiles,
                   out, resp>>

CaptureLast ==
    /\ pc = "lastcapture"
    /\ \E o \in RunOutcomes :
         IF o = "ok"
         THEN /\ tiles' = Append(tiles, Tile(scrollY, req.ViewportWidth,
                                             req.ViewportHeight))
              /\ pc' = "stitch"
              /\ UNCHANGED <<session, resp, failed>>
         ELSE /\ failed' = failed \cup {"capture"}
              /\ WriteErr
              /\ UNCHANGED tiles
    /\ hist' = [hist EXCEPT !.captures = @ + 1]
    /\ UNCHANGED <<body, req, expired, totalHeight, scrollY, cursorY, step, out>>

Stitch ==
    /\ pc = "stitch"
    /\ out' = stitchVertical(tiles, req.OverlapPX)
    /\ pc' = "encode"
    /\ UNCHANGED <<body, hist, req, session, expired, totalHeight, scrollY, cursorY, step,
                   tiles, failed, resp>>

\* png.Encode or jpeg.Encode: does not use the context
Encode ==
    /\ pc = "encode"
    /\ \E o \in {"ok", "err"} :
         IF o = "ok"
         THEN pc' = "title" /\ UNCHANGED <<session, resp>>
         ELSE WriteErr
    /\ hist' = [hist EXCEPT !.quality = IF req.ImageFormat = "png" THEN 0
                                          ELSE EncodeQuality(req)]
    /\ UNCHANGED <<body, req, expired, totalHeight, scrollY, cursorY, step, tiles,
                   failed, out>>

\* chromedp.Title and chromedp.Location: the errors are dropped
ReadTitle ==
    /\ pc = "title"
    /\ pc' = "location"
    /\ UNCHANGED <<body, hist, req, session, expired, totalHeight, scrollY, cursorY, step,
                   tiles, failed, out, resp>>

ReadLocation ==
    /\ pc = "location"
    /\ pc' = "respond"
    /\ UNCHANGED <<body, hist, req, session, expired, totalHeight, scrollY, cursorY, step,
                   tiles, failed, out, resp>>

Respond ==
    /\ pc = "respond"
    /\ resp' = [sent |-> TRUE, ok |-> TRUE, status |-> 200, image |-> TRUE]
    /\ session' = "closed"
    /\ pc' = "done"
    /\ UNCHANGED <<body, hist, req, expired, totalHeight, scrollY, cursorY, step, tiles,
                   failed, out>>

Next ==
    \/ MethodNotAllowed
    \/ DecodeError
    \/ Decode
    \/ NewContext
    \/ Expire
    \/ EmulateViewport
    \/ BlockMedia
    \/ Navigate
    \/ InjectStyle
    \/ ForceEager
    \/ WaitAssets
    \/ MeasureHeight
    \/ ResetScroll
    \/ InitLoop
    \/ ScrollToCursor
    \/ Capture
    \/ ScrollToBottom
    \/ CaptureLast
    \/ Stitch
    \/ Encode
    \/ ReadTitle
    \/ ReadLocation
    \/ Respond

Spec == Init /\ [][Next]_vars

(***************************************************************************)
(* The Node handler, index.js 8-201                                        *)
(***************************************************************************)
Absent == [set |-> FALSE, v |-> 0]
Given(n) == [set |-> TRUE, v |-> n]

JsViewportHeights == {Absent, Given(1), Given(2), Given(3), Given(60), Given(100)}
JsOverlaps == {Absent, Given(0), Given(1), Given(10), Given(50)}

\* a destructuring default applies to an absent field only
JsDefault(f, d) == IF f.set THEN f.v ELSE d

JsDestructure(viewport_height, overlap_px) ==
    [URL |-> "http://page",
     TimeoutMS |-> DefaultTimeoutMS,
     ViewportWidth |-> DefaultViewportWidth,
     ViewportHeight |-> JsDefault(viewport_height, DefaultViewportHeight),
     SettleDelayMS |-> DefaultSettleDelayMS,
     OverlapPX |-> JsDefault(overlap_px, DefaultOverlapPX),
     ImageFormat |-> "jpeg",
     JPEGQuality |-> DefaultJPEGQuality]

\* index.js 78
JsScrollStep(viewport_height) == Max(200, (8 * viewport_height) \div 10)

\* index.js 139
RECURSIVE JsMinWidth(_, _)
JsMinWidth(ts, i) ==
    IF i = 1 THEN ts[1].width ELSE Min(JsMinWidth(ts, i - 1), ts[i].width)

\* index.js 142-146: a resize to a width keeps the aspect ratio
JsResizedHeight(t, targetWidth) ==
    IF t.width # targetWidth
    THEN (2 * t.height * targetWidth + t.width) \div (2 * t.width)
    ELSE t.height

JsNormalize(ts) ==
    LET targetWidth == JsMinWidth(ts, Len(ts))
    IN [i \in 1..Len(ts) |->
          [offset |-> ts[i].offset, width |-> targetWidth,
           height |-> JsResizedHeight(ts[i], targetWidth)]]

\* index.js 151-155
RECURSIVE JsFinalHeight(_, _, _)
JsFinalHeight(ns, overlap_px, i) ==
    IF i = 0 THEN 0
    ELSE IF i = 1 THEN ns[1].height
    ELSE JsFinalHeight(ns, overlap_px, i - 1) + Max(0, ns[i].height - overlap_px)

\* index.js 166-172
RECURSIVE JsYOffset(_, _, _)
JsYOffset(ns, overlap_px, i) ==
    IF i = 0 THEN 0
    ELSE IF i = 1 THEN ns[1].height
    ELSE (JsYOffset(ns, overlap_px, i - 1) - overlap_px) + ns[i].height

JsTopY(ns, overlap_px, i) ==
    IF i = 1 THEN 0 ELSE JsYOffset(ns, overlap_px, i - 1) - overlap_px

JsStitched(ts, overlap_px) ==
    LET ns == JsNormalize(ts)
        finalHeight == JsFinalHeight(ns, overlap_px, Len(ns))
    IN [w |-> JsMinWidth(ts, Len(ts)),
        h |-> finalHeight,
        total |-> finalHeight,
        cursorY |-> JsYOffset(ns, overlap_px, Len(ns)),
        pastes |-> [i \in 1..Len(ns) |->
                      [y |-> JsTopY(ns, overlap_px, i),
                       height |-> ns[i].height,
                       offset |-> ns[i].offset]]]

JsInit ==
    /\ pc = "js_start"
    /\ req = NoReq
    /\ session = "none"
    /\ expired = FALSE
    /\ totalHeight = 0
    /\ scrollY = 0
    /\ cursorY = 0
    /\ step = 0
    /\ tiles = <<>>
    /\ failed = {}
    /\ out = NoOut
    /\ resp = NoResp
    /\ body = NoBody
    /\ hist = NoHist

JsOutcomes == {"ok", "err"}

\* the catch and finally blocks, index.js 196-200
JsCatch ==
    /\ resp' = [sent |-> TRUE, ok |-> FALSE, status |-> 500, image |-> FALSE]
    /\ session' = "closed"
    /\ pc' = "done"

\* an await outside the try block rejects: the handler ends there
JsReject ==
    /\ pc' = "js_rejected"
    /\ UNCHANGED <<session, resp>>

JsReadBody ==
    /\ pc = "js_start"
    /\ \E vh \in JsViewportHeights : \E ov \in JsOverlaps :
         req' = JsDestructure(vh, ov)
    /\ pc' = "js_launch"
    /\ UNCHANGED <<body, hist, session, expired, totalHeight, scrollY, cursorY, step,
                   tiles, failed, out, resp>>

JsLaunch ==
    /\ pc = "js_launch"
    /\ \E o \in JsOutcomes :
         IF o = "ok"
         THEN session' = "open" /\ pc' = "js_newContext" /\ UNCHANGED resp
         ELSE JsReject
    /\ UNCHANGED <<body, hist, req, expired, totalHeight, scrollY, cursorY, step, tiles,
                   failed, out>>

JsNewContext ==
    /\ pc = "js_newContext"
    /\ \E o \in JsOutcomes :
         IF o = "ok"
         THEN pc' = "js_newPage" /\ UNCHANGED <<session, resp>>
         ELSE JsReject
    /\ UNCHANGED <<body, hist, req, expired, totalHeight, scrollY, cursorY, step, tiles,
                   failed, out>>

JsNewPage ==
    /\ pc = "js_newPage"
    /\ \E o \in JsOutcomes :
         IF o = "ok"
         THEN pc' = "js_route" /\ UNCHANGED <<session, resp>>
         ELSE JsReject
    /\ UNCHANGED <<body, hist, req, expired, totalHeight, scrollY, cursorY, step, tiles,
                   failed, out>>

JsRoute ==
    /\ pc = "js_route"
    /\ \E o \in JsOutcomes :
         IF o = "ok" THEN pc' = "js_goto" /\ UNCHANGED <<session, resp>> ELSE JsCatch
    /\ UNCHANGED <<body, hist, req, expired, totalHeight, scrollY, cursorY, step, tiles,
                   failed, out>>

JsGoto ==
    /\ pc = "js_goto"
    /\ \E o \in JsOutcomes :
         IF o = "ok" THEN pc' = "js_load" /\ UNCHANGED <<session, resp>> ELSE JsCatch
    /\ UNCHANGED <<body, hist, req, expired, totalHeight, scrollY, cursorY, step, tiles,
                   failed, out>>

\* waitForLoadState(...).catch(() => {})
JsWaitLoad ==
    /\ pc = "js_load"
    /\ pc' = "js_style"
    /\ UNCHANGED <<body, hist, req, session, expired, totalHeight, scrollY, cursorY, step,
                   tiles, failed, out, resp>>

JsAddStyle ==
    /\ pc = "js_style"
    /\ \E o \in JsOutcomes :
         IF o = "ok" THEN pc' = "js_eager" /\ UNCHANGED <<session, resp>> ELSE JsCatch
    /\ UNCHANGED <<body, hist, req, expired, totalHeight, scrollY, cursorY, step, tiles,
                   failed, out>>
JsForceEager ==
    /\ pc = "js_eager"
    /\ \E o \in JsOutcomes :
         IF o = "ok" THEN pc' = "js_measure" /\ UNCHANGED <<session, resp>> ELSE JsCatch
    /\ UNCHANGED <<body, hist, req, expired, totalHeight, scrollY, cursorY, step, tiles,
                   failed, out>>

JsMeasure ==
    /\ pc = "js_measure"
    /\ \E o \in JsOutcomes :
         IF o = "ok"
         THEN /\ \E h \in 0..MaxTotalHeight : totalHeight' = h
              /\ cursorY' = 0
              /\ pc' = "js_autoscroll"
              /\ UNCHANGED <<session, resp>>
         ELSE JsCatch /\ UNCHANGED <<totalHeight, cursorY>>
    /\ UNCHANGED <<body, hist, req, expired, scrollY, step, tiles, failed, out>>

\* index.js 80-84, one iteration; cursorY holds currentY
JsAutoScroll ==
    /\ pc = "js_autoscroll"
    /\ cursorY + req.ViewportHeight < totalHeight
    /\ \E o \in JsOutcomes :
         IF o = "ok"
         THEN /\ scrollY' = ScrollTo(cursorY, totalHeight, req.ViewportHeight)
              /\ cursorY' = cursorY + JsScrollStep(req.ViewportHeight)
              /\ UNCHANGED <<pc, session, resp>>
         ELSE JsCatch /\ UNCHANGED <<scrollY, cursorY>>
    /\ UNCHANGED <<body, hist, req, expired, totalHeight, step, tiles, failed, out>>

\* index.js 86-87
JsHitBottom ==
    /\ pc = "js_autoscroll"
    /\ ~(cursorY + req.ViewportHeight < totalHeight)
    /\ \E o \in JsOutcomes :
         IF o = "ok"
         THEN /\ scrollY' = ScrollTo(totalHeight, totalHeight, req.ViewportHeight)
              /\ pc' = "js_remeasure"
              /\ UNCHANGED <<session, resp>>
         ELSE JsCatch /\ UNCHANGED scrollY
    /\ UNCHANGED <<body, hist, req, expired, totalHeight, cursorY, step, tiles, failed, out>>

\* index.js 89-91: the height is measured again
JsRemeasure ==
    /\ pc = "js_remeasure"
    /\ \E o \in JsOutcomes :
         IF o = "ok"
         THEN /\ \E h \in 0..MaxTotalHeight : totalHeight' = h
              /\ pc' = "js_top"
              /\ UNCHANGED <<session, resp>>
         ELSE JsCatch /\ UNCHANGED totalHeight
    /\ UNCHANGED <<body, hist, req, expired, scrollY, cursorY, step, tiles, failed, out>>

JsReturnToTop ==
    /\ pc = "js_top"
    /\ \E o \in JsOutcomes :
         IF o = "ok"
         THEN /\ scrollY' = ScrollTo(0, totalHeight, req.ViewportHeight)
              /\ pc' = "js_fullpage"
              /\ UNCHANGED <<session, resp>>
         ELSE JsCatch /\ UNCHANGED scrollY
    /\ UNCHANGED <<body, hist, req, expired, totalHeight, cursorY, step, tiles, failed, out>>

\* index.js 97-109: the native full-page screenshot, else the tile fallback
JsFullPage ==
    /\ pc = "js_fullpage"
    /\ \E o \in JsOutcomes :
         IF o = "ok"
         THEN pc' = "js_title" /\ UNCHANGED <<tiles, cursorY, step>>
         ELSE /\ tiles' = <<>>
              /\ cursorY' = 0
              /\ step' = req.ViewportHeight - req.OverlapPX
              /\ pc' = "js_while"
    /\ UNCHANGED <<body, hist, req, session, expired, totalHeight, scrollY, failed, out, resp>>

\* index.js 110: while (y < totalHeight); cursorY holds y
JsWhile ==
    /\ pc = "js_while"
    /\ pc' = IF cursorY < totalHeight THEN "js_scroll" ELSE "js_stitch"
    /\ UNCHANGED <<body, hist, req, session, expired, totalHeight, scrollY, cursorY, step,
                   tiles, failed, out, resp>>

JsScroll ==
    /\ pc = "js_scroll"
    /\ \E o \in JsOutcomes :
         IF o = "ok"
         THEN /\ Len(tiles) < MaxTiles
              /\ scrollY' = ScrollTo(cursorY, totalHeight, req.ViewportHeight)
              /\ pc' = "js_capture"
              /\ UNCHANGED <<session, resp>>
         ELSE JsCatch /\ UNCHANGED scrollY
    /\ UNCHANGED <<body, hist, req, expired, totalHeight, cursorY, step, tiles, failed, out>>

JsCapture ==
    /\ pc = "js_capture"
    /\ \E o \in JsOutcomes :
         IF o = "ok"
         THEN /\ tiles' = Append(tiles, Tile(scrollY, req.ViewportWidth,
                                             req.ViewportHeight))
              /\ cursorY' = cursorY + step
              /\ pc' = IF ReachedBottom(cursorY', req.ViewportHeight,
                                        totalHeight)
                       THEN "js_bottom" ELSE "js_while"
              /\ UNCHANGED <<session, resp>>
         ELSE JsCatch /\ UNCHANGED <<tiles, cursorY>>
    /\ UNCHANGED <<body, hist, req, expired, totalHeight, scrollY, step, failed, out>>

JsScrollToBottom ==
    /\ pc = "js_bottom"
    /\ \E o \in JsOutcomes :
         IF o = "ok"
         THEN /\ scrollY' = ScrollTo(totalHeight, totalHeight, req.ViewportHeight)
              /\ pc' = "js_lastcapture"
              /\ UNCHANGED <<session, resp>>
         ELSE JsCatch /\ UNCHANGED scrollY
    /\ UNCHANGED <<body, hist, req, expired, totalHeight, cursorY, step, tiles, failed, out>>

JsCaptureLast ==
    /\ pc = "js_lastcapture"
    /\ \E o \in JsOutcomes :
         IF o = "ok"
         THEN /\ tiles' = Append(tiles, Tile(scrollY, req.ViewportWidth,
                                             req.ViewportHeight))
              /\ pc' = "js_stitch"
              /\ UNCHANGED <<session, resp>>
         ELSE JsCatch /\ UNCHANGED tiles
    /\ UNCHANGED <<body, hist, req, expired, totalHeight, scrollY, cursorY, step, failed, out>>

\* index.js 127-176
JsStitch ==
    /\ pc = "js_stitch"
    /\ \E o \in JsOutcomes :
         IF o = "ok" /\ Len(tiles) # 0
         THEN /\ out' = JsStitched(tiles, req.OverlapPX)
              /\ pc' = "js_title"
              /\ UNCHANGED <<session, resp>>
         ELSE JsCatch /\ UNCHANGED out
    /\ UNCHANGED <<body, hist, req, expired, totalHeight, scrollY, cursorY, step, tiles,
                   failed>>

JsTitle ==
    /\ pc = "js_title"
    /\ \E o \in JsOutcomes :
         IF o = "ok" THEN pc' = "js_respond" /\ UNCHANGED <<session, resp>> ELSE JsCatch
    /\ UNCHANGED <<body, hist, req, expired, totalHeight, scrollY, cursorY, step, tiles,
                   failed, out>>

\* res.json, then the finally block
JsRespond ==
    /\ pc = "js_respond"
    /\ resp' = [sent |-> TRUE, ok |-> TRUE, status |-> 200, image |-> TRUE]
    /\ session' = "closed"
    /\ pc' = "done"
    /\ UNCHANGED <<body, hist, req, expired, totalHeight, scrollY, cursorY, step, tiles,
                   failed, out>>

JsNext ==
    \/ JsReadBody
    \/ JsLaunch
    \/ JsNewContext
    \/ JsNewPage
    \/ JsRoute
    \/ JsGoto
    \/ JsWaitLoad
    \/ JsAddStyle
    \/ JsForceEager
    \/ JsMeasure
    \/ JsAutoScroll
    \/ JsHitBottom
    \/ JsRemeasure
    \/ JsReturnToTop
    \/ JsFullPage
    \/ JsWhile
    \/ JsScroll
    \/ JsCapture
    \/ JsScrollToBottom
    \/ JsCaptureLast
    \/ JsStitch
    \/ JsTitle
    \/ JsRespond

SpecJS == JsInit /\ [][JsNext]_vars

(***************************************************************************)
(* The stitchers applied to arbitrary tile sequences                       *)
(***************************************************************************)
StitchTileSet ==
    [offset : {0}, width : {800, 802}, height : 1..MaxTileHeight]

StitchInputs ==
    UNION {[1..n -> StitchTileSet] : n \in 1..MaxStitchTiles}

StitchInit ==
    /\ pc \in {"stitch", "js_stitch"}
    /\ \E ov \in 0..MaxStitchOverlap : req = [NoReq EXCEPT !.OverlapPX = ov]
    /\ session = "open"
    /\ expired = FALSE
    /\ totalHeight = 0
    /\ scrollY = 0
    /\ cursorY = 0
    /\ step = 0
    /\ tiles \in StitchInputs
    /\ failed = {}
    /\ out = NoOut
    /\ resp = NoResp
    /\ body = NoBody
    /\ hist = NoHist

StitchNext ==
    \/ Stitch
    \/ JsStitch

SpecStitch == StitchInit /\ [][StitchNext]_vars

(***************************************************************************)
(* Properties                                                              *)
(***************************************************************************)
\* ceil(a / b) for b > 0
CeilDiv(a, b) == -((-a) \div b)

RECURSIVE SumHeights(_, _)
SumHeights(ts, i) == IF i = 0 THEN 0 ELSE SumHeights(ts, i - 1) + ts[i].height

RECURSIVE MaxTileHeightOf(_, _)
MaxTileHeightOf(ts, i) ==
    IF i = 1 THEN ts[1].height ELSE Max(MaxTileHeightOf(ts, i - 1), ts[i].height)

RECURSIVE MinTileWidthOf(_, _)
MinTileWidthOf(ts, i) ==
    IF i = 1 THEN ts[1].width ELSE Min(MinTileWidthOf(ts, i - 1), ts[i].width)

RECURSIVE ClaimedFinalHeight(_, _, _)
ClaimedFinalHeight(ts, overlap, i) ==
    IF i = 1 THEN ts[1].height
    ELSE ClaimedFinalHeight(ts, overlap, i - 1) + Max(0, ts[i].height - overlap)

\* the scroll loop of handleScrape has ended with its break
LoopFinished ==
    \/ pc \in {"stitch", "encode", "title", "location", "respond"}
    \/ pc = "done" /\ resp.ok

\* the scroll loop of handleScrape is running
InLoop == pc \in {"scroll", "capture", "bottom", "lastcapture"}

\* stitchVertical has produced the image of this request
GoStitched == pc \in {"encode", "title", "location", "respond"}

\* C1 as stated: the loop appends ceil((totalHeight - viewportHeight) / step) + 2
\* tiles when totalHeight > viewportHeight, and exactly 1 tile otherwise.
C1_CountAsClaimed ==
    LoopFinished =>
        IF totalHeight > req.ViewportHeight
        THEN step > 0 /\
             Len(tiles) = CeilDiv(totalHeight - req.ViewportHeight, step) + 2
        ELSE Len(tiles) = 1

\* C1 amended: when the loop ends, it has appended
\* max(1, ceil((totalHeight - viewportHeight) / step)) + 1 tiles, which is 2
\* for every page no taller than viewportHeight + step (a page shorter than
\* the viewport included); with step = 0 the loop ends only with 2 tiles.
C1_TileCount ==
    LoopFinished =>
        Len(tiles) = IF step > 0
                     THEN Max(1, CeilDiv(totalHeight - req.ViewportHeight, step)) + 1
                     ELSE 2

C1_Witness ==
    /\ pc = "stitch"
    /\ step >= SafetyFloor
    /\ totalHeight > req.ViewportHeight + step
    /\ Len(tiles) = 3

\* C2: when the loop has ended and no scroll failed, the forced final tile
\* was taken at max(0, totalHeight - viewportHeight), the first at 0, no two
\* consecutive tiles leave a gap, and every position of [0, totalHeight] is
\* inside the extent of a tile.
C2_NoCoverageGap ==
    LoopFinished /\ "bottom" \notin failed =>
        /\ tiles[1].offset = 0
        /\ tiles[Len(tiles)].offset = Max(0, totalHeight - req.ViewportHeight)
        /\ \A i \in 1..(Len(tiles) - 1) :
             tiles[i + 1].offset <= tiles[i].offset + req.ViewportHeight
        /\ \A y \in 0..totalHeight : \E i \in 1..Len(tiles) :
             tiles[i].offset <= y /\ y <= tiles[i].offset + req.ViewportHeight

C2_Witness ==
    /\ pc = "stitch"
    /\ "bottom" \notin failed
    /\ Len(tiles) >= 3
    /\ step > 0
    /\ (totalHeight - req.ViewportHeight) % step # 0

\* C3 as stated: for every normalized request the step of the loop is
\* strictly positive.
C3_StepPositive == InLoop => step > 0

\* C4 as stated: the canvas stitchVertical allocates is as high as
\* tile[0].height + sum of max(0, tile[i].height - overlapPx).
C4_HeightAsClaimed ==
    pc = "encode" => out.h = ClaimedFinalHeight(tiles, req.OverlapPX, Len(tiles))

\* C5 as stated: for every request that reaches the stitcher,
\* max(tile.height) <= finalHeight <= sum of the tile heights.
C5_HeightBounds ==
    GoStitched =>
        /\ MaxTileHeightOf(tiles, Len(tiles)) <= out.h
        /\ out.h <= SumHeights(tiles, Len(tiles))

\* C6 as stated: the width of the composite is the minimum width over all
\* tiles.
C6_WidthIsMinimum ==
    pc = "encode" => out.w = MinTileWidthOf(tiles, Len(tiles))

\* C7 as stated: the offsets of the appended tiles are strictly increasing in
\* append order, the forced final tile included, and the stitcher pastes the
\* tiles in that order.
C7_StrictlyIncreasing ==
    LoopFinished =>
        /\ \A i \in 1..(Len(tiles) - 1) : tiles[i].offset < tiles[i + 1].offset
        /\ GoStitched =>
             \A i \in 1..Len(tiles) : out.pastes[i].offset = tiles[i].offset

\* C7 amended: the offsets of the tiles the loop appended before the forced
\* final tile are strictly increasing; the final tile's offset is never below
\* its predecessor's, and is above it exactly when the page is taller than
\* the viewport and the final scroll succeeded; the stitcher pastes the tiles
\* in append order.
C7_Offsets ==
    LoopFinished =>
        /\ Len(tiles) >= 2
        /\ \A i \in 1..(Len(tiles) - 2) : tiles[i].offset < tiles[i + 1].offset
        /\ tiles[Len(tiles) - 1].offset <= tiles[Len(tiles)].offset
        /\ (tiles[Len(tiles) - 1].offset < tiles[Len(tiles)].offset)
             <=> (totalHeight > req.ViewportHeight /\ "bottom" \notin failed)
        /\ GoStitched =>
             /\ Len(out.pastes) = Len(tiles)
             /\ \A i \in 1..Len(tiles) : out.pastes[i].offset = tiles[i].offset

C7_Witness ==
    /\ pc = "encode"
    /\ Len(tiles) >= 3
    /\ tiles[Len(tiles) - 1].offset < tiles[Len(tiles)].offset

\* C8 as stated: once a scroll or a capture has failed, the response is an
\* error of status 500 without an image.
C8_FailureIsError ==
    resp.sent /\ failed # {} =>
        ~resp.ok /\ resp.status = 500 /\ ~resp.image

\* C9 as stated: no exit of the handler leaves the session open.
C9_SessionClosed ==
    pc \in {"done", "js_rejected"} => session # "open"

\* C10 as stated: no ok:true response is sent for a request whose deadline
\* expired before the response was written.
C10_ExpiredIsError ==
    resp.sent /\ expired => ~resp.ok

\* the body of the request was decoded and its defaults substituted
Decoded == pc # "start" /\ body.method = "POST" /\ ~body.malformed

\* the tiles the loop appended, the forced final tile left out
RegularCount ==
    IF LoopFinished \/ out # NoOut THEN Len(tiles) - 1 ELSE Len(tiles)

\* C11: once a page height below 1 was measured, the request has ended with
\* an error of status 500 and the loop was never entered: no scroll to a
\* cursor, no capture, no tile.
C11_BlankPageFails ==
    hist.measured /\ totalHeight < 1 =>
        /\ pc = "done"
        /\ resp.sent /\ ~resp.ok /\ resp.status = 500 /\ ~resp.image
        /\ hist.scrolls = 0
        /\ hist.captures = 0
        /\ tiles = <<>>

C11_Witness ==
    /\ hist.measured
    /\ totalHeight = 0
    /\ pc = "done"
    /\ hist.navigated

C13_OverlapAsClaimed ==
    \A i \in 1..(RegularCount - 1) :
        tiles[i + 1].offset - tiles[i].offset <= req.ViewportHeight - req.OverlapPX

\* C13 amended: two consecutive tiles, the pair ending in the forced final
\* tile left out, are exactly viewportHeight - overlapPx apart when that is
\* at least 50, and exactly floor(0.75 * viewportHeight) apart otherwise.
C13_RegularSpacing ==
    \A i \in 1..(RegularCount - 1) :
        tiles[i + 1].offset - tiles[i].offset =
            IF req.ViewportHeight - req.OverlapPX >= 50
            THEN req.ViewportHeight - req.OverlapPX
            ELSE (3 * req.ViewportHeight) \div 4

C13_Witness ==
    /\ pc = "stitch"
    /\ Len(tiles) >= 3
    /\ req.ViewportHeight - req.OverlapPX < 50
    /\ tiles[2].offset - tiles[1].offset > req.ViewportHeight - req.OverlapPX

\* C14 as stated: a request whose body is malformed or has no url is answered
\* with status 400 and never reaches the navigation.
C14_InvalidInputRejected ==
    body.method = "POST" /\ (body.malformed \/ body.fields.URL = "") =>
        /\ ~hist.navigated
        /\ resp.sent => resp.status = 400

\* C15: when the overlap is at most the height of every pasted tile, the
\* running bottom edge after the last paste is the height of the canvas, no
\* paste offset is negative, no tile reaches below the canvas, and every row
\* of the canvas is inside a pasted tile.
C15_PastesFillCanvas ==
    /\ pc \in {"encode", "js_title"}
    /\ out # NoOut
    /\ \A i \in 1..Len(out.pastes) : req.OverlapPX <= out.pastes[i].height
    => /\ out.cursorY = out.h
       /\ \A i \in 1..Len(out.pastes) :
            /\ out.pastes[i].y >= 0
            /\ out.pastes[i].y + out.pastes[i].height <= out.h
       /\ \A row \in 0..(out.h - 1) : \E i \in 1..Len(out.pastes) :
            /\ out.pastes[i].y <= row
            /\ row < out.pastes[i].y + out.pastes[i].height

C15_Witness ==
    /\ pc = "encode"
    /\ Len(out.pastes) = 3
    /\ req.OverlapPX >= 2
    /\ \A i \in 1..3 : req.OverlapPX <= out.pastes[i].height
    /\ out.pastes[3].height > req.OverlapPX
====
